---- MODULE Spec2Model ----
(***************************************************************************)
(* Model of the persistent torrent-metadata index                          *)
(* (src-tauri/src/torrent_db.rs) and of the range resolver of the local    *)
(* streaming server (src-tauri/src/file_server.rs).                        *)
(*                                                                         *)
(*   Spec       one caller: every index operation is one action (the whole *)
(*              handler, its save_to_file included)                        *)
(*   SpecConc   several callers on one TorrentDb: every lock acquisition   *)
(*              and every file-system call of a handler is one step        *)
(*   SpecRange  parse_range applied to bounded specifiers and sizes        *)
(***************************************************************************)
EXTENDS Integers, Sequences, FiniteSets

VARIABLES
    entries,    \* TorrentDatabase.entries : HashMap<String, TorrentEntry>
    clock,      \* the last value chrono::Utc::now().timestamp() returned
    fs,         \* the file system under db_path.parent()
    last,       \* the call that completed last and what it returned (Spec)
    pc,         \* per caller: the place of its call in the handler (SpecConc)
    call,       \* per caller: the operation in progress and its arguments
    fd,         \* per caller: inode of the temp file it has open (0: none)
    off,        \* per caller: chunks written so far through its BufWriter
    ioFailures, \* I/O calls that have failed so far
    range_str,  \* parse_range: the specifier
    file_size,  \* parse_range: the file size
    range_res,  \* parse_range: what it returned
    current_file,   \* FileServerState: the registered path (an Option)
    last_set,       \* history: the argument of the last set_file that completed
    req,            \* the HTTP request in progress and its response
    server_handle,  \* SERVER_HANDLE: the listener task's handle (an Option)
    tasks,          \* the listener tasks spawned so far
    init_ret,       \* what the calls of init_file_server have returned
    call_now,       \* per caller: the timestamp its upsert_torrent has read
    data_lock       \* the RwLock of TorrentDb.data: its writer and its readers

vars == <<entries, clock, fs, last, pc, call, fd, off, ioFailures,
          range_str, file_size, range_res,
          current_file, last_set, req, server_handle, tasks, init_ret,
          call_now, data_lock>>

indexVars == <<entries, clock, fs, last>>
concVars  == <<pc, call, fd, off, ioFailures>>
rangeVars == <<range_str, file_size, range_res>>
serveVars == <<current_file, last_set, req>>
listenVars == <<server_handle, tasks, init_ret>>
lockVars == <<call_now, data_lock>>

----------------------------------------------------------------------------
(* Bounds and input domains *)

Hashes       == {"h1", "h2"}
HashOrder    == <<"h1", "h2">>
TorrentIds   == {1, 2}
TmdbIds      == {42, 67}
MediaTypes   == {"movie"}
EpisodeInfos == {<<1, 2>>}

(* Option<T>: None is the empty sequence, Some(v) a one-element sequence *)
None      == <<>>
Some(v)   == <<v>>
IsSome(o) == o # None
Unwrap(o) == o[1]
Opt(S)    == {None} \cup {Some(v) : v \in S}

----------------------------------------------------------------------------
(* HashMap<String, TorrentEntry>: a set of key/value pairs *)

MapContains(m, k) == \E p \in m : p.k = k

MapGet(m, k) ==
    IF MapContains(m, k) THEN Some((CHOOSE p \in m : p.k = k).v) ELSE None

MapRemove(m, k) == {p \in m : p.k # k}

MapInsert(m, k, v) == MapRemove(m, k) \cup {[k |-> k, v |-> v]}

(* retain with the closure |hash, _| keys.contains(hash) *)
MapRetain(m, keys) == {p \in m : p.k \in keys}

MapKeys(m) == {p.k : p \in m}

----------------------------------------------------------------------------
(* TorrentEntry and the in-memory operations of TorrentDb *)

MakeEntry(torrent_id, info_hash, tmdb_id, media_type, episode_info, now) ==
    [torrent_id   |-> torrent_id,
     info_hash    |-> info_hash,
     tmdb_id      |-> tmdb_id,
     media_type   |-> media_type,
     created_at   |-> now,
     updated_at   |-> now,
     episode_info |-> episode_info,
     imdb_code    |-> None]

(* upsert_torrent replacing the optional fields by the arguments, absent or not *)
UpsertEntries_Replace(m, torrent_id, info_hash, tmdb_id, media_type, episode_info, now) ==
    IF MapContains(m, info_hash)
    THEN LET entry == Unwrap(MapGet(m, info_hash))
             e5 == [entry EXCEPT !.torrent_id = torrent_id, !.tmdb_id = tmdb_id,
                                 !.media_type = media_type,
                                 !.episode_info = episode_info, !.updated_at = now]
         IN  (m \ {[k |-> info_hash, v |-> entry]}) \cup {[k |-> info_hash, v |-> e5]}
    ELSE MapInsert(m, info_hash,
                   MakeEntry(torrent_id, info_hash, tmdb_id, media_type, episode_info, now))

(* upsert_torrent adding the updated entry beside the one it found *)
UpsertEntries_NoReplace(m, torrent_id, info_hash, tmdb_id, media_type, episode_info, now) ==
    IF MapContains(m, info_hash)
    THEN LET entry == Unwrap(MapGet(m, info_hash))
             e1 == [entry EXCEPT !.torrent_id = torrent_id]
             e2 == IF IsSome(tmdb_id) THEN [e1 EXCEPT !.tmdb_id = tmdb_id] ELSE e1
             e3 == IF IsSome(media_type) THEN [e2 EXCEPT !.media_type = media_type] ELSE e2
             e4 == IF IsSome(episode_info) THEN [e3 EXCEPT !.episode_info = episode_info] ELSE e3
             e5 == [e4 EXCEPT !.updated_at = now]
         IN  m \cup {[k |-> info_hash, v |-> e5]}
    ELSE MapInsert(m, info_hash,
                   MakeEntry(torrent_id, info_hash, tmdb_id, media_type, episode_info, now))

(* upsert_torrent, lines 114-144: the update of data.entries under the write lock *)
UpsertEntries(m, torrent_id, info_hash, tmdb_id, media_type, episode_info, now) ==
    IF MapContains(m, info_hash)
    THEN LET entry == Unwrap(MapGet(m, info_hash))
             e1 == [entry EXCEPT !.torrent_id = torrent_id]
             e2 == IF IsSome(tmdb_id) THEN [e1 EXCEPT !.tmdb_id = tmdb_id] ELSE e1
             e3 == IF IsSome(media_type) THEN [e2 EXCEPT !.media_type = media_type] ELSE e2
             e4 == IF IsSome(episode_info) THEN [e3 EXCEPT !.episode_info = episode_info] ELSE e3
             e5 == [e4 EXCEPT !.updated_at = now]
         IN  (m \ {[k |-> info_hash, v |-> entry]}) \cup {[k |-> info_hash, v |-> e5]}
    ELSE MapInsert(m, info_hash,
                   MakeEntry(torrent_id, info_hash, tmdb_id, media_type, episode_info, now))

(* get_by_hash returning an entry of the map without looking at its key *)
GetByHash_AnyEntry(m, info_hash) ==
    IF m = {} THEN None ELSE Some((CHOOSE p \in m : TRUE).v)

(* get_by_hash, lines 153-156 *)
GetByHash(m, info_hash) == MapGet(m, info_hash)

(* get_by_id: the entries `find` may stop at (HashMap iteration order is unspecified) *)
FindById(m, torrent_id) == {p \in m : p.v.torrent_id = torrent_id}

GetByIdResults(m, torrent_id) ==
    IF FindById(m, torrent_id) = {} THEN {None}
    ELSE {Some(p.v) : p \in FindById(m, torrent_id)}

(* remove_by_hash, line 186 *)
RemoveByHashEntries(m, info_hash) == MapRemove(m, info_hash)

(* remove_by_id, lines 199-206: the maps it may leave *)
RemoveByIdResults(m, torrent_id) ==
    IF FindById(m, torrent_id) = {} THEN {m}
    ELSE {MapRemove(m, p.k) : p \in FindById(m, torrent_id)}

(* sync_with_torrent_list keeping the stale entries instead of the active ones *)
SyncEntries_Inverted(m, active_info_hashes) ==
    MapRetain(m, MapKeys(m) \ active_info_hashes)

(* sync_with_torrent_list, lines 222-223 *)
SyncEntries(m, active_info_hashes) ==
    MapRetain(m, active_info_hashes)

(* count, lines 248-251 *)
Count(m) == Cardinality(m)

----------------------------------------------------------------------------
(* The serialized document and the file system *)

Threads  == {"t1", "t2"}
InodeIds == 1 .. (Cardinality(Threads) + 1)

EntryChunk(p) == [tag |-> "entry", k |-> p.k, v |-> p.v]
CloseChunk    == [tag |-> "close"]
NulChunk      == [tag |-> "nul"]

RECURSIVE SerKeys(_, _)
SerKeys(m, i) ==
    IF i > Len(HashOrder) THEN <<>>
    ELSE (IF MapContains(m, HashOrder[i])
          THEN <<EntryChunk([k |-> HashOrder[i], v |-> Unwrap(MapGet(m, HashOrder[i]))])>>
          ELSE <<>>) \o SerKeys(m, i + 1)

(* serde_json::to_writer_pretty(&TorrentDatabase): the entries, then the closing of
   the document; one chunk is one flush of the BufWriter *)
Serialize(m) == SerKeys(m, 1) \o <<CloseChunk>>

RECURSIVE ChunksToMap(_, _)
ChunksToMap(c, n) ==
    IF n = 0 THEN {}
    ELSE MapInsert(ChunksToMap(c, n - 1), c[n].k, c[n].v)

WellFormed(c) ==
    /\ Len(c) >= 1
    /\ c[Len(c)].tag = "close"
    /\ \A i \in 1 .. (Len(c) - 1) : c[i].tag = "entry"

(* a reader that loses the first entry of the document *)
ParseDoc_SkipsFirst(c) ==
    IF ~WellFormed(c) THEN None
    ELSE IF Len(c) = 1 THEN Some({})
    ELSE Some(ChunksToMap(Tail(c), Len(c) - 2))

(* serde_json::from_reader: Some(map) for a complete document, None for an error *)
ParseDoc(c) == IF WellFormed(c) THEN Some(ChunksToMap(c, Len(c) - 1)) ELSE None

FsInit == [parent |-> FALSE, db |-> 0, tmp |-> 0, data |-> [i \in InodeIds |-> <<>>]]

(* create_dir_all(parent) *)
FsMkdir(f) == [f EXCEPT !.parent = TRUE]

FreeInode(f, open) == CHOOSE i \in InodeIds :
    /\ i \notin ({f.db, f.tmp} \cup open)
    /\ \A j \in InodeIds : j \notin ({f.db, f.tmp} \cup open) => i <= j

(* OpenOptions write+create+truncate on tmp_path; `open` are the inodes held open *)
FsOpenTmp(f, open) ==
    IF f.tmp = 0
    THEN LET i == FreeInode(f, open)
         IN  [f EXCEPT !.tmp = i, !.data[i] = <<>>]
    ELSE [f EXCEPT !.data[f.tmp] = <<>>]

RECURSIVE Pad(_, _)
Pad(c, n) == IF Len(c) >= n THEN c ELSE Pad(Append(c, NulChunk), n)

(* write(2) of one chunk at file offset `at` (chunks before it) of inode i *)
FsWrite(f, i, at, chunk) ==
    LET c == f.data[i]
    IN  [f EXCEPT !.data[i] =
            IF at < Len(c) THEN [c EXCEPT ![at + 1] = chunk]
            ELSE Append(Pad(c, at), chunk)]

RECURSIVE FsWriteAll(_, _, _, _)
FsWriteAll(f, i, doc, at) ==
    IF at >= Len(doc) THEN f
    ELSE FsWriteAll(FsWrite(f, i, at, doc[at + 1]), i, doc, at + 1)

(* rename(tmp_path, db_path), tmp_path existing *)
FsRename(f) == [f EXCEPT !.db = f.tmp, !.tmp = 0]

(* an inode no name and no open file refers to is freed *)
FsGc(f, open) ==
    [f EXCEPT !.data = [i \in InodeIds |->
        IF i \in ({f.db, f.tmp} \cup open) THEN f.data[i] ELSE <<>>]]

(* save_to_file run to its end by a single caller, every I/O call succeeding *)
SaveToFile(f, m) ==
    LET f1 == FsOpenTmp(FsMkdir(f), {})
        f2 == FsWriteAll(f1, f1.tmp, Serialize(m), 0)
    IN  FsGc(FsRename(f2), {})

(* the content of the durable file at db_path, None when there is no file *)
Durable(f) == IF f.db = 0 THEN None ELSE Some(f.data[f.db])

(* the content of the temp file *)
TmpFile(f) == IF f.tmp = 0 THEN None ELSE Some(f.data[f.tmp])

----------------------------------------------------------------------------
(* Spec: one caller, one action per handler *)

NoCall ==
    [op |-> "none", hash |-> "", torrent_id |-> 0, tmdb_id |-> None,
     media_type |-> None, episode_info |-> None, active |-> {},
     existed |-> FALSE, saves |-> 0, ok |-> TRUE, result |-> None, after |-> ""]

IdleThreads ==
    /\ pc = [t \in Threads |-> "idle"]
    /\ call = [t \in Threads |-> NoCall]
    /\ fd = [t \in Threads |-> 0]
    /\ off = [t \in Threads |-> 0]
    /\ ioFailures = 0

NoRange ==
    /\ range_str = <<>>
    /\ file_size = 0
    /\ range_res = "unset"

(* the headers of a response: "" and <<>> stand for a header that is not set *)
NoHeaders ==
    [content_type |-> "", accept_ranges |-> "", cache_control |-> "", vary |-> "",
     allow_origin |-> "", allow_methods |-> "", allow_headers |-> "",
     expose_headers |-> "", max_age |-> "",
     content_length |-> <<>>, content_range |-> <<>>]

(* a response: status 0 is no response yet; the body is the sequence of the spans
   of file bytes written to it, [file, first, count] for count bytes of file from
   offset first *)
NoResponse ==
    [status |-> 0, headers |-> NoHeaders, via |-> "none", body |-> <<>>]

(* a request and the locals of its handler *)
NoRequest ==
    [pc |-> "idle", method |-> "", range |-> None,
     file_path |-> None, file |-> None, pos |-> 0, file_size |-> 0,
     parsed |-> [kind |-> "unset", start |-> 0, end |-> 0],
     remaining |-> 0, reads |-> 0,
     registry_reads |-> 0, opens |-> 0, range_read |-> FALSE, io_error |-> FALSE,
     resp |-> NoResponse]

(* FileServerState::new (file_server.rs lines 47-51), no request in progress *)
NoServe ==
    /\ current_file = None
    /\ last_set = None
    /\ req = NoRequest

(* the RwLock as TorrentDb::new makes it (torrent_db.rs line 61): no writer, no
   reader; no caller has read the time *)
NoLock ==
    /\ call_now = [t \in Threads |-> 0]
    /\ data_lock = [writer |-> {}, readers |-> {}]

(* SERVER_HANDLE as the lazy static makes it (line 301) *)
NoListener ==
    /\ server_handle = None
    /\ tasks = <<>>
    /\ init_ret = <<>>

(* TorrentDb::new on a path with no file *)
Init ==
    /\ entries = {}
    /\ clock = 1
    /\ fs = FsInit
    /\ last = NoCall
    /\ IdleThreads
    /\ NoRange
    /\ NoServe
    /\ NoListener
    /\ NoLock

upsert_torrent(torrent_id, info_hash, tmdb_id, media_type, episode_info, now) ==
    /\ entries' = UpsertEntries(entries, torrent_id, info_hash, tmdb_id,
                                media_type, episode_info, now)
    /\ clock' = now
    /\ fs' = SaveToFile(fs, entries')
    /\ last' = [NoCall EXCEPT !.op = "upsert", !.hash = info_hash,
                   !.torrent_id = torrent_id, !.tmdb_id = tmdb_id,
                   !.media_type = media_type, !.episode_info = episode_info,
                   !.existed = MapContains(entries, info_hash), !.saves = 1,
                   !.after = IF last.op = "get_by_hash" /\ last.hash = info_hash
                             THEN "get_by_hash" ELSE ""]
    /\ UNCHANGED <<concVars, rangeVars, serveVars, listenVars, lockVars>>

get_by_hash(info_hash) ==
    /\ last' = [NoCall EXCEPT !.op = "get_by_hash", !.hash = info_hash,
                   !.result = GetByHash(entries, info_hash),
                   !.after = IF last.op = "upsert" /\ last.hash = info_hash
                             THEN "upsert" ELSE ""]
    /\ UNCHANGED <<entries, clock, fs, concVars, rangeVars, serveVars, listenVars, lockVars>>

get_by_id(torrent_id) ==
    /\ \E r \in GetByIdResults(entries, torrent_id) :
          last' = [NoCall EXCEPT !.op = "get_by_id", !.torrent_id = torrent_id,
                      !.result = r]
    /\ UNCHANGED <<entries, clock, fs, concVars, rangeVars, serveVars, listenVars, lockVars>>

(* remove_by_hash calling save_to_file whether or not it removed an entry *)
remove_by_hash_AlwaysSaves(info_hash) ==
    /\ entries' = RemoveByHashEntries(entries, info_hash)
    /\ fs' = SaveToFile(fs, entries')
    /\ last' = [NoCall EXCEPT !.op = "remove_by_hash", !.hash = info_hash,
                   !.existed = MapContains(entries, info_hash), !.saves = 1]
    /\ UNCHANGED <<clock, concVars, rangeVars, serveVars, listenVars, lockVars>>

remove_by_hash(info_hash) ==
    /\ entries' = RemoveByHashEntries(entries, info_hash)
    /\ IF MapContains(entries, info_hash)
       THEN /\ fs' = SaveToFile(fs, entries')
            /\ last' = [NoCall EXCEPT !.op = "remove_by_hash", !.hash = info_hash,
                           !.existed = TRUE, !.saves = 1]
       ELSE /\ fs' = fs
            /\ last' = [NoCall EXCEPT !.op = "remove_by_hash", !.hash = info_hash]
    /\ UNCHANGED <<clock, concVars, rangeVars, serveVars, listenVars, lockVars>>

remove_by_id(torrent_id) ==
    /\ \E m \in RemoveByIdResults(entries, torrent_id) : entries' = m
    /\ IF FindById(entries, torrent_id) # {}
       THEN /\ fs' = SaveToFile(fs, entries')
            /\ last' = [NoCall EXCEPT !.op = "remove_by_id", !.torrent_id = torrent_id,
                           !.existed = TRUE, !.saves = 1]
       ELSE /\ fs' = fs
            /\ last' = [NoCall EXCEPT !.op = "remove_by_id", !.torrent_id = torrent_id]
    /\ UNCHANGED <<clock, concVars, rangeVars, serveVars, listenVars, lockVars>>

sync_with_torrent_list(active_info_hashes) ==
    /\ entries' = SyncEntries(entries, active_info_hashes)
    /\ LET removed_count == Count(entries) - Count(entries')
       IN  IF removed_count > 0
           THEN /\ fs' = SaveToFile(fs, entries')
                /\ last' = [NoCall EXCEPT !.op = "sync", !.active = active_info_hashes,
                               !.existed = TRUE, !.saves = 1]
           ELSE /\ fs' = fs
                /\ last' = [NoCall EXCEPT !.op = "sync", !.active = active_info_hashes]
    /\ UNCHANGED <<clock, concVars, rangeVars, serveVars, listenVars, lockVars>>

Next ==
    \/ \E id \in TorrentIds, h \in Hashes, tm \in Opt(TmdbIds), mt \in Opt(MediaTypes),
          ep \in Opt(EpisodeInfos) :
          upsert_torrent(id, h, tm, mt, ep, clock)
    \/ \E h \in Hashes : get_by_hash(h)
    \/ \E id \in TorrentIds : get_by_id(id)
    \/ \E h \in Hashes : remove_by_hash(h)
    \/ \E id \in TorrentIds : remove_by_id(id)
    \/ \E a \in SUBSET Hashes : sync_with_torrent_list(a)

Spec == Init /\ [][Next]_vars

----------------------------------------------------------------------------
(* Claims on the index, one caller *)

EntryOf(m, k) == Unwrap(MapGet(m, k))

Merged(arg, old) == IF IsSome(arg) THEN arg ELSE old

(* C1: an upsert of a hash that has an entry sets the entry's torrent_id to the
   argument, and sets each of tmdb_id, media_type and episode_info to the argument
   when the argument is present and leaves it as it was when the argument is absent *)
C1_UpsertIsMerge ==
    [][(last'.op = "upsert" /\ MapContains(entries, last'.hash)) =>
         /\ MapContains(entries', last'.hash)
         /\ LET old == EntryOf(entries, last'.hash)
                new == EntryOf(entries', last'.hash)
            IN  /\ new.torrent_id = last'.torrent_id
                /\ new.tmdb_id = Merged(last'.tmdb_id, old.tmdb_id)
                /\ new.media_type = Merged(last'.media_type, old.media_type)
                /\ new.episode_info = Merged(last'.episode_info, old.episode_info)]_vars

(* the scenario of the spec: a stored tmdb_id and media_type survive an upsert that
   gives only a new numeric id *)
C1_Witness ==
    /\ last.op = "upsert" /\ last.existed
    /\ last.torrent_id = 2 /\ last.tmdb_id = None /\ last.media_type = None
    /\ MapContains(entries, last.hash)
    /\ EntryOf(entries, last.hash).torrent_id = 2
    /\ EntryOf(entries, last.hash).tmdb_id = Some(42)
    /\ EntryOf(entries, last.hash).media_type = Some("movie")

(* C2: get_by_hash right after upsert(hash, ...) returns the stored entry, which has
   the upsert's torrent_id and every present argument; an upsert right after it that
   gives only a numeric id leaves tmdb_id, media_type and episode_info as returned *)
C2_RoundTrip ==
    [][/\ (last.op = "upsert" /\ last'.op = "get_by_hash" /\ last'.hash = last.hash) =>
            /\ IsSome(last'.result)
            /\ [k |-> last.hash, v |-> Unwrap(last'.result)] \in entries
            /\ Unwrap(last'.result).info_hash = last.hash
            /\ Unwrap(last'.result).torrent_id = last.torrent_id
            /\ IsSome(last.tmdb_id) => Unwrap(last'.result).tmdb_id = last.tmdb_id
            /\ IsSome(last.media_type) => Unwrap(last'.result).media_type = last.media_type
            /\ IsSome(last.episode_info) =>
                   Unwrap(last'.result).episode_info = last.episode_info
       /\ (/\ last.op = "get_by_hash" /\ IsSome(last.result)
           /\ last'.op = "upsert" /\ last'.hash = last.hash
           /\ last'.tmdb_id = None /\ last'.media_type = None
           /\ last'.episode_info = None) =>
            /\ MapContains(entries', last.hash)
            /\ EntryOf(entries', last.hash).torrent_id = last'.torrent_id
            /\ EntryOf(entries', last.hash).tmdb_id = Unwrap(last.result).tmdb_id
            /\ EntryOf(entries', last.hash).media_type = Unwrap(last.result).media_type
            /\ EntryOf(entries', last.hash).episode_info =
                   Unwrap(last.result).episode_info]_vars

(* get_by_hash has just returned the entry that the upsert before it created with
   a tmdb_id and a media_type *)
C2_Witness ==
    /\ last.op = "get_by_hash" /\ last.after = "upsert"
    /\ IsSome(last.result)
    /\ Unwrap(last.result).tmdb_id = Some(67)
    /\ Unwrap(last.result).media_type = Some("movie")

(* C3: sync_with_torrent_list(active) leaves the previous index restricted to the
   hashes in active, every kept entry as it was *)
C3_SyncRestricts ==
    [][last'.op = "sync" =>
         /\ MapKeys(entries') = MapKeys(entries) \cap last'.active
         /\ \A k \in MapKeys(entries') : MapGet(entries', k) = MapGet(entries, k)
         /\ entries' \subseteq entries]_vars

(* a sync that removed one entry and kept the other *)
C3_Witness ==
    /\ last.op = "sync" /\ last.existed
    /\ Cardinality(entries) = 1
    /\ MapKeys(entries) \subseteq last.active

UniqueKeys(m) == \A p \in m, q \in m : p.k = q.k => p = q

(* C4: the index never holds two entries for one hash, and an upsert of a hash that
   has an entry does not add an entry *)
C4_OneEntryPerHash ==
    /\ []UniqueKeys(entries)
    /\ [][(last'.op = "upsert" /\ MapContains(entries, last'.hash)) =>
             Count(entries') <= Count(entries)]_vars

(* an upsert of a present hash, both hashes stored *)
C4_Witness ==
    /\ last.op = "upsert" /\ last.existed
    /\ MapKeys(entries) = Hashes
    /\ Count(entries) = 2

(* C8: remove_by_hash, remove_by_id and sync_with_torrent_list return Ok; when they
   delete nothing they leave the index and the files alone and do not call
   save_to_file; when they delete an entry they call save_to_file once, which
   leaves the whole index in the durable file *)
C8_RemovePersistsOnlyOnDelete ==
    [][last'.op \in {"remove_by_hash", "remove_by_id", "sync"} =>
         /\ last'.ok
         /\ entries' \subseteq entries
         /\ IF entries' = entries
            THEN last'.saves = 0 /\ fs' = fs
            ELSE /\ last'.saves = 1
                 /\ Durable(fs') = Some(Serialize(entries'))
                 /\ TmpFile(fs') = None]_vars

(* a removal of an absent hash from a non-empty, persisted index *)
C8_Witness ==
    /\ last.op = "remove_by_hash" /\ ~last.existed /\ last.saves = 0
    /\ entries # {} /\ ~MapContains(entries, last.hash)
    /\ Durable(fs) = Some(Serialize(entries))

----------------------------------------------------------------------------
(* SpecConc: callers t of one TorrentDb (an Arc<TorrentDb> shared by the command
   handlers).  A handler takes data.write(), changes data.entries and drops the
   guard before it calls save_to_file (lines 146, 188, 208, 231): that is one step,
   enabled when no caller holds data.read().  save_to_file then makes its I/O
   calls one step at a time, holding data.read() from line 92 to its return. *)

MaxIoFailures == 1

(* the arguments the concurrent callers draw from *)
ConcHashes     == {"h1", "h2"}
ConcTorrentIds == {1}
ConcTmdbIds    == {}

(* the callers that hold data.read(): save_to_file lines 92-98 *)
Readers == {t \in Threads : pc[t] \in {"write", "rename"}}

(* the inodes callers other than t hold open *)
OpenInodes(t) == {fd[u] : u \in Threads \ {t}} \ {0}

CanCall(t) == pc[t] \in {"idle", "returned"} /\ Readers = {}

(* the handler goes on to save_to_file when it changed the map (for upsert_torrent:
   always), and returns Ok(()) at once when it did not *)
Begin(t, saves) ==
    /\ pc' = [pc EXCEPT ![t] = IF saves THEN "mkdir" ELSE "returned"]
    /\ call' = [call EXCEPT ![t] = [NoCall EXCEPT !.op = "call", !.existed = saves]]

(* a handler returns from save_to_file (or without calling it) *)
Return(t, ok) ==
    /\ pc' = [pc EXCEPT ![t] = "returned"]
    /\ call' = [call EXCEPT ![t].ok = ok, ![t].saves = 1]
    /\ fd' = [fd EXCEPT ![t] = 0]
    /\ off' = [off EXCEPT ![t] = 0]

CanFail == ioFailures < MaxIoFailures

(* upsert_torrent lines 110-146 *)
UpsertMutate(t, torrent_id, info_hash, tmdb_id) ==
    /\ CanCall(t)
    /\ entries' = UpsertEntries(entries, torrent_id, info_hash, tmdb_id, None, None, clock)
    /\ Begin(t, TRUE)
    /\ UNCHANGED <<clock, fs, last, fd, off, ioFailures, rangeVars, serveVars, listenVars, lockVars>>

(* remove_by_hash lines 185-188, or 185-191 when the hash is absent *)
RemoveByHashMutate(t, info_hash) ==
    /\ CanCall(t)
    /\ entries' = RemoveByHashEntries(entries, info_hash)
    /\ Begin(t, MapContains(entries, info_hash))
    /\ UNCHANGED <<clock, fs, last, fd, off, ioFailures, rangeVars, serveVars, listenVars, lockVars>>

(* remove_by_id lines 196-208, or 196-212 when no entry has the id *)
RemoveByIdMutate(t, torrent_id) ==
    /\ CanCall(t)
    /\ \E m \in RemoveByIdResults(entries, torrent_id) : entries' = m
    /\ Begin(t, FindById(entries, torrent_id) # {})
    /\ UNCHANGED <<clock, fs, last, fd, off, ioFailures, rangeVars, serveVars, listenVars, lockVars>>

(* sync_with_torrent_list lines 218-231, or 218-237 when nothing is stale *)
SyncMutate(t, active_info_hashes) ==
    /\ CanCall(t)
    /\ entries' = SyncEntries(entries, active_info_hashes)
    /\ Begin(t, Count(entries) - Count(entries') > 0)
    /\ UNCHANGED <<clock, fs, last, fd, off, ioFailures, rangeVars, serveVars, listenVars, lockVars>>

(* save_to_file lines 78-80: create_dir_all *)
SaveMkdir(t) ==
    /\ pc[t] = "mkdir"
    /\ \/ /\ fs' = FsMkdir(fs)
          /\ pc' = [pc EXCEPT ![t] = "open"]
          /\ UNCHANGED <<call, fd, off, ioFailures>>
       \/ /\ CanFail
          /\ ioFailures' = ioFailures + 1
          /\ Return(t, FALSE)
          /\ UNCHANGED fs
    /\ UNCHANGED <<entries, clock, last, rangeVars, serveVars, listenVars, lockVars>>

(* save_to_file lines 82-89: open tmp_path, creating or truncating it *)
SaveOpen(t) ==
    /\ pc[t] = "open"
    /\ \/ /\ fs' = FsOpenTmp(fs, OpenInodes(t))
          /\ fd' = [fd EXCEPT ![t] = fs'.tmp]
          /\ off' = [off EXCEPT ![t] = 0]
          /\ pc' = [pc EXCEPT ![t] = "rlock"]
          /\ UNCHANGED <<call, ioFailures>>
       \/ /\ CanFail
          /\ ioFailures' = ioFailures + 1
          /\ Return(t, FALSE)
          /\ UNCHANGED fs
    /\ UNCHANGED <<entries, clock, last, rangeVars, serveVars, listenVars, lockVars>>

(* save_to_file line 92: data.read(), granted as no caller holds data.write() across
   a step *)
SaveReadLock(t) ==
    /\ pc[t] = "rlock"
    /\ pc' = [pc EXCEPT ![t] = "write"]
    /\ UNCHANGED <<entries, clock, fs, last, call, fd, off, ioFailures, rangeVars, serveVars, listenVars, lockVars>>

(* save_to_file line 93: to_writer_pretty writes the document through the BufWriter,
   one chunk per flush.  A flush made while serializing returns its error; the last
   one is made when to_writer_pretty drops the BufWriter, which discards its error.
   The drop closes the file. *)
SaveWrite(t) ==
    /\ pc[t] = "write"
    /\ LET doc == Serialize(entries)
           isLast == off[t] + 1 >= Len(doc)
       IN  \/ /\ ~isLast
              /\ fs' = FsWrite(fs, fd[t], off[t], doc[off[t] + 1])
              /\ off' = [off EXCEPT ![t] = off[t] + 1]
              /\ UNCHANGED <<pc, call, fd, ioFailures>>
           \/ /\ isLast
              /\ fs' = FsGc(FsWrite(fs, fd[t], off[t], doc[off[t] + 1]), OpenInodes(t))
              /\ pc' = [pc EXCEPT ![t] = "rename"]
              /\ fd' = [fd EXCEPT ![t] = 0]
              /\ off' = [off EXCEPT ![t] = 0]
              /\ UNCHANGED <<call, ioFailures>>
           \/ /\ ~isLast /\ CanFail
              /\ ioFailures' = ioFailures + 1
              /\ Return(t, FALSE)
              /\ fs' = FsGc(fs, OpenInodes(t))
           \/ /\ isLast /\ CanFail
              /\ ioFailures' = ioFailures + 1
              /\ fs' = FsGc(fs, OpenInodes(t))
              /\ pc' = [pc EXCEPT ![t] = "rename"]
              /\ fd' = [fd EXCEPT ![t] = 0]
              /\ off' = [off EXCEPT ![t] = 0]
              /\ UNCHANGED call
    /\ UNCHANGED <<entries, clock, last, rangeVars, serveVars, listenVars, lockVars>>

(* save_to_file lines 95-98: rename tmp_path over db_path, then return; the rename
   fails when another caller has renamed the temp file away *)
SaveRename(t) ==
    /\ pc[t] = "rename"
    /\ \/ /\ fs.tmp # 0
          /\ fs' = FsGc(FsRename(fs), OpenInodes(t))
          /\ Return(t, TRUE)
          /\ UNCHANGED ioFailures
       \/ /\ fs.tmp = 0
          /\ Return(t, FALSE)
          /\ UNCHANGED <<fs, ioFailures>>
       \/ /\ fs.tmp # 0 /\ CanFail
          /\ ioFailures' = ioFailures + 1
          /\ Return(t, FALSE)
          /\ UNCHANGED fs
    /\ UNCHANGED <<entries, clock, last, rangeVars, serveVars, listenVars, lockVars>>

(* the process dies: memory and open files are gone, the files stay as they are *)
Crash ==
    /\ \E t \in Threads : pc[t] # "crashed"
    /\ pc' = [t \in Threads |-> "crashed"]
    /\ call' = [t \in Threads |-> NoCall]
    /\ fd' = [t \in Threads |-> 0]
    /\ off' = [t \in Threads |-> 0]
    /\ entries' = {}
    /\ fs' = FsGc(fs, {})
    /\ UNCHANGED <<clock, last, ioFailures, rangeVars, serveVars, listenVars, lockVars>>

InitConc == Init

NextConc ==
    \/ \E t \in Threads, id \in ConcTorrentIds, h \in ConcHashes, tm \in Opt(ConcTmdbIds) :
          UpsertMutate(t, id, h, tm)
    \/ \E t \in Threads, h \in ConcHashes : RemoveByHashMutate(t, h)
    \/ \E t \in Threads, id \in ConcTorrentIds : RemoveByIdMutate(t, id)
    \/ \E t \in Threads, a \in SUBSET ConcHashes : SyncMutate(t, a)
    \/ \E t \in Threads : SaveMkdir(t)
    \/ \E t \in Threads : SaveOpen(t)
    \/ \E t \in Threads : SaveReadLock(t)
    \/ \E t \in Threads : SaveWrite(t)
    \/ \E t \in Threads : SaveRename(t)
    \/ Crash

SpecConc == InitConc /\ [][NextConc]_vars

----------------------------------------------------------------------------
(* Claims on the index, concurrent callers *)

(* a complete document: it parses, and it is what serializing the parsed map gives *)
Complete(c) == WellFormed(c) /\ Serialize(ChunksToMap(c, Len(c) - 1)) = c

(* a caller's rename has just succeeded: it returns Ok from save_to_file *)
ReturnsOk(t) == pc[t] = "rename" /\ pc'[t] = "returned" /\ call'[t].ok

(* C5: with every I/O call succeeding, the durable file is at every instant absent
   or a complete serialization of an index *)
C5_DurableNeverHalfWritten ==
    ioFailures = 0 =>
        \/ Durable(fs) = None
        \/ Complete(Unwrap(Durable(fs)))

(* C6: no step other than a successful rename changes the content of the durable
   file, so a crash at any step before the rename leaves the document that was
   there *)
C6_OnlyRenameChangesDurable ==
    [][(ioFailures' = 0 /\ ~ \E t \in Threads : ReturnsOk(t)) =>
          Durable(fs') = Durable(fs)]_vars

(* C7: with every I/O call succeeding, when a mutating call returns Ok the durable
   file is a complete document that holds the index with the call's change *)
C7_DurableOnReturn ==
    [][\A t \in Threads : (ioFailures' = 0 /\ ReturnsOk(t)) =>
          Durable(fs') = Some(Serialize(entries'))]_vars

----------------------------------------------------------------------------
(* parse_range (file_server.rs lines 18-38).  A &str is a sequence of characters. *)

MaxSize  == 11
WordBits == 29

(* u64::MAX, scaled to WordBits bits *)
U64Max == 2 ^ WordBits - 1

Digits == <<"0", "1", "2", "3", "4", "5", "6", "7", "8", "9">>

IsDigit(c) == \E i \in 1 .. 10 : Digits[i] = c

DigitValue(c) == (CHOOSE i \in 1 .. 10 : Digits[i] = c) - 1

(* u64 Display *)
RECURSIVE U64ToString(_)
U64ToString(n) ==
    IF n < 10 THEN <<Digits[n + 1]>>
    ELSE U64ToString(n \div 10) \o <<Digits[(n % 10) + 1]>>

(* the digits of s[i..] added to acc with checked_mul / checked_add *)
RECURSIVE ParseDigits(_, _, _)
ParseDigits(s, i, acc) ==
    IF i > Len(s) THEN [ok |-> TRUE, val |-> acc]
    ELSE IF ~IsDigit(s[i]) THEN [ok |-> FALSE, val |-> 0]
    ELSE IF acc > (U64Max - DigitValue(s[i])) \div 10 THEN [ok |-> FALSE, val |-> 0]
    ELSE ParseDigits(s, i + 1, acc * 10 + DigitValue(s[i]))

(* str::parse::<u64>: empty, a lone sign, a '-' sign, a non-digit and an overflow
   are errors; one leading '+' is accepted *)
ParseU64(s) ==
    IF s = <<>> THEN [ok |-> FALSE, val |-> 0]
    ELSE IF Len(s) = 1 /\ s[1] \in {"+", "-"} THEN [ok |-> FALSE, val |-> 0]
    ELSE IF s[1] = "+" THEN ParseDigits(s, 2, 0)
    ELSE ParseDigits(s, 1, 0)

(* str::split('-'): the parts between the dashes, empty parts included *)
RECURSIVE SplitDash(_)
SplitDash(s) ==
    IF \A i \in 1 .. Len(s) : s[i] # "-" THEN <<s>>
    ELSE LET d == CHOOSE i \in 1 .. Len(s) :
                      s[i] = "-" /\ \A j \in 1 .. (i - 1) : s[j] # "-"
         IN  <<SubSeq(s, 1, d - 1)>> \o SplitDash(SubSeq(s, d + 1, Len(s)))

RangeNone       == [kind |-> "none", start |-> 0, end |-> 0]
RangeSome(a, b) == [kind |-> "some", start |-> a, end |-> b]
RangePanic      == [kind |-> "panic", start |-> 0, end |-> 0]
RangeUnset      == [kind |-> "unset", start |-> 0, end |-> 0]

(* the bounds check with start < end for start <= end *)
CheckBounds_Strict(start, end, size) ==
    IF start < end /\ end < size THEN RangeSome(start, end) ELSE RangeNone

(* the bounds check with end <= file_size for end < file_size *)
CheckBounds_Inclusive(start, end, size) ==
    IF start <= end /\ end <= size THEN RangeSome(start, end) ELSE RangeNone

(* lines 32-37 *)
CheckBounds(start, end, size) ==
    IF start <= end /\ end < size THEN RangeSome(start, end) ELSE RangeNone

(* parse_range: what a call may return.  file_size - 1 with file_size = 0 wraps to
   u64::MAX in a build without overflow checks and panics in a build with them. *)
ParseRangeResults(s, size) ==
    LET parts == SplitDash(s)
    IN  IF Len(parts) # 2 THEN {RangeNone}
        ELSE LET start == ParseU64(parts[1])
                 end   == ParseU64(parts[2])
             IN  IF ~start.ok THEN {RangeNone}
                 ELSE IF parts[2] = <<>>
                      THEN IF size = 0
                           THEN {CheckBounds(start.val, U64Max, size), RangePanic}
                           ELSE {CheckBounds(start.val, size - 1, size)}
                      ELSE IF ~end.ok THEN {RangeNone}
                           ELSE {CheckBounds(start.val, end.val, size)}

(* the specifiers: up to three tokens joined by dashes *)
RangeTokens ==
    {U64ToString(n) : n \in 0 .. (MaxSize + 1)}
        \cup {<<>>, <<"x">>, <<"1", "x">>, <<"+", "1">>, <<"0", "1">>,
              <<"9", "9", "9", "9", "9", "9", "9", "9", "9">>}

RangeSpecifiers ==
    RangeTokens
        \cup {a \o <<"-">> \o b : a \in RangeTokens, b \in RangeTokens}
        \cup {a \o <<"-">> \o b \o <<"-">> \o c :
                 a \in RangeTokens, b \in RangeTokens, c \in {<<>>, <<"1">>, <<"x">>}}

InitRange ==
    /\ entries = {}
    /\ clock = 1
    /\ fs = FsInit
    /\ last = NoCall
    /\ IdleThreads
    /\ range_str \in RangeSpecifiers
    /\ file_size \in 0 .. MaxSize
    /\ range_res = RangeUnset
    /\ NoServe
    /\ NoListener
    /\ NoLock

parse_range ==
    /\ range_res = RangeUnset
    /\ range_res' \in ParseRangeResults(range_str, file_size)
    /\ UNCHANGED <<range_str, file_size, indexVars, concVars, serveVars, listenVars, lockVars>>

NextRange == parse_range

SpecRange == InitRange /\ [][NextRange]_vars

----------------------------------------------------------------------------
(* Claims on parse_range *)

Dash == <<"-">>

(* C9: for a size of at least 1, "start-end" with 0 <= start <= end < size gives
   (start, end), and "start-" with 0 <= start < size gives (start, size - 1) *)
C9_AcceptsInBounds ==
    (range_res # RangeUnset /\ file_size >= 1) =>
        /\ \A start \in 0 .. (file_size - 1), end \in 0 .. (file_size - 1) :
              (start <= end /\ range_str = U64ToString(start) \o Dash \o U64ToString(end)) =>
                  range_res = RangeSome(start, end)
        /\ \A start \in 0 .. (file_size - 1) :
              range_str = U64ToString(start) \o Dash =>
                  range_res = RangeSome(start, file_size - 1)

(* "10-" on a file of 11 bytes has given (10, 10) *)
C9_Witness ==
    /\ range_str = <<"1", "0", "-">>
    /\ file_size = 11
    /\ range_res = RangeSome(10, 10)

DashCount(s) == Cardinality({i \in 1 .. Len(s) : s[i] = "-"})

FirstDash(s) == CHOOSE i \in 1 .. Len(s) : s[i] = "-"

StartToken(s) == SubSeq(s, 1, FirstDash(s) - 1)

EndToken(s) == SubSeq(s, FirstDash(s) + 1, Len(s))

AllDigits(tok) == \A i \in 1 .. Len(tok) : IsDigit(tok[i])

(* a numeric token: decimal digits, after an optional '+' *)
Numeric(tok) ==
    \/ tok # <<>> /\ AllDigits(tok)
    \/ Len(tok) >= 2 /\ tok[1] = "+" /\ AllDigits(Tail(tok))

RECURSIVE DecimalValue(_)
DecimalValue(tok) ==
    IF tok = <<>> THEN 0
    ELSE IF tok[1] = "+" THEN DecimalValue(Tail(tok))
    ELSE DecimalValue(SubSeq(tok, 1, Len(tok) - 1)) * 10 + DigitValue(tok[Len(tok)])

(* C10: parse_range returns None for a specifier that has not exactly one dash, whose
   start token is missing or not numeric, whose end token is not numeric, whose end
   is at least the size, or whose start is greater than its end; a returned pair has
   0 <= start <= end <= size - 1 *)
C10_RejectsOutOfBounds ==
    range_res # RangeUnset =>
        /\ DashCount(range_str) # 1 => range_res = RangeNone
        /\ DashCount(range_str) = 1 =>
              LET st == StartToken(range_str)
                  en == EndToken(range_str)
              IN  /\ ~Numeric(st) => range_res = RangeNone
                  /\ (en # <<>> /\ ~Numeric(en)) => range_res = RangeNone
                  /\ (Numeric(en) /\ DecimalValue(en) >= file_size) =>
                         range_res = RangeNone
                  /\ (Numeric(st) /\ Numeric(en) /\ DecimalValue(st) > DecimalValue(en)) =>
                         range_res = RangeNone
        /\ range_res.kind = "some" =>
              /\ 0 <= range_res.start
              /\ range_res.start <= range_res.end
              /\ range_res.end <= file_size - 1

(* "5-3" on a file of 11 bytes has been rejected *)
C10_Witness ==
    /\ range_str = <<"5", "-", "3">>
    /\ file_size = 11
    /\ range_res = RangeNone

----------------------------------------------------------------------------
(* The file server (file_server.rs).  A path is its stem and its extension; the
   disk holds some of the paths, each with the length its metadata reports. *)

SmallMp4 == [stem |-> "small", ext |-> <<"mp4">>]
BigMkv   == [stem |-> "big", ext |-> <<"mkv">>]
EmptyMp4 == [stem |-> "empty", ext |-> <<"mp4">>]
GoneMp4  == [stem |-> "gone", ext |-> <<"mp4">>]

Paths == {SmallMp4, BigMkv, EmptyMp4, GoneMp4}

Disk ==
    {[path |-> SmallMp4, len |-> 1000],
     [path |-> BigMkv, len |-> 50000000],
     [path |-> EmptyMp4, len |-> 0]}

Exists(path) == \E f \in Disk : f.path = path

MetadataLen(path) == (CHOOSE f \in Disk : f.path = path).len

(* line 213 *)
STREAMING_THRESHOLD == 10485760

(* FileServerState::set_file with a first-write-wins slot *)
SetFile_KeepFirst(current, file_path) ==
    IF IsSome(current) THEN current ELSE Some(file_path)

(* FileServerState::set_file (lines 53-57) *)
SetFile(current, file_path) == Some(file_path)

(* FileServerState::get_file (lines 59-61) *)
GetFile(current) == current

(* lines 164-168 *)
ContentType(file_path) ==
    IF file_path.ext = <<"mp4">> THEN "video/mp4" ELSE "application/octet-stream"

(* add_common_headers (lines 65-98) *)
AddCommonHeaders(headers, content_type) ==
    [headers EXCEPT
        !.content_type = content_type,
        !.accept_ranges = "bytes",
        !.cache_control = "public, max-age=3600",
        !.vary = "origin, access-control-request-method, access-control-request-headers",
        !.allow_origin = "*",
        !.allow_methods = "GET, HEAD, OPTIONS",
        !.allow_headers = "range, content-type",
        !.expose_headers = "content-length, content-range, accept-ranges"]

(* the response of handle_options (lines 101-124) *)
OptionsResponse ==
    [status |-> 204,
     headers |-> [NoHeaders EXCEPT
                     !.allow_origin = "*",
                     !.allow_methods = "GET, HEAD, OPTIONS",
                     !.allow_headers = "range, content-type",
                     !.max_age = "86400"],
     via |-> "none",
     body |-> <<>>]

(* Err(status) with 403 for the 404 of a file that cannot be opened *)
ErrResponse_Forbidden(status) ==
    [status |-> IF status = 404 THEN 403 ELSE status, headers |-> NoHeaders,
     via |-> "none", body |-> <<>>]

(* Err(status): a response of the bare status code *)
ErrResponse(status) == [NoResponse EXCEPT !.status = status]

BytesEq == <<"b", "y", "t", "e", "s", "=">>

BytesSp == <<"b", "y", "t", "e", "s", " ">>

(* a byte of a header value that is not visible ASCII *)
Opaque == "\\x80"

(* HeaderValue::to_str().ok() (line 175) *)
HeaderToStr(value) ==
    IF \E i \in 1 .. Len(value) : value[i] = Opaque THEN None ELSE Some(value)

(* str::strip_prefix (line 177) *)
StripPrefix(s, prefix) ==
    IF Len(s) >= Len(prefix) /\ SubSeq(s, 1, Len(prefix)) = prefix
    THEN Some(SubSeq(s, Len(prefix) + 1, Len(s)))
    ELSE None

(* lines 171-184: what the Range header of the request gives for a file of the
   size, as parse_range may return it *)
RequestRanges(range, size) ==
    IF ~IsSome(range) THEN {RangeNone}
    ELSE LET str == HeaderToStr(Unwrap(range))
         IN  IF ~IsSome(str) THEN {RangeNone}
             ELSE LET rest == StripPrefix(Unwrap(str), BytesEq)
                  IN  IF ~IsSome(rest) THEN {RangeNone}
                      ELSE ParseRangeResults(Unwrap(rest), size)

(* line 204 *)
ContentRange(start, end, size) ==
    BytesSp \o U64ToString(start) \o <<"-">> \o U64ToString(end)
        \o <<"/">> \o U64ToString(size)

(* the 206 with a Content-Length of end - start *)
PartialHead_ShortLength(file_path, start, end, size, via) ==
    [status |-> 206,
     headers |-> [AddCommonHeaders(NoHeaders, ContentType(file_path)) EXCEPT
                     !.content_length = U64ToString(end - start),
                     !.content_range = ContentRange(start, end, size)],
     via |-> via,
     body |-> <<>>]

(* lines 223-241 and 253-267: the 206 without its body *)
PartialHead(file_path, start, end, size, via) ==
    [status |-> 206,
     headers |-> [AddCommonHeaders(NoHeaders, ContentType(file_path)) EXCEPT
                     !.content_length = U64ToString(end - start + 1),
                     !.content_range = ContentRange(start, end, size)],
     via |-> via,
     body |-> <<>>]

(* the 416 of a server that refuses a range it cannot satisfy, for the 200 *)
FullHead_Unsatisfiable(file_path, size) ==
    [status |-> 416, headers |-> NoHeaders, via |-> "none", body |-> <<>>]

(* lines 276-294: the 200 without its body *)
FullHead(file_path, size) ==
    [status |-> 200,
     headers |-> [AddCommonHeaders(NoHeaders, ContentType(file_path)) EXCEPT
                     !.content_length = U64ToString(size)],
     via |-> "streamed",
     body |-> <<>>]

(* the strategy with >= for > *)
Strategy_AtLeast(content_length) ==
    IF content_length >= STREAMING_THRESHOLD THEN "streamed" ELSE "buffered"

(* line 215 *)
Strategy(content_length) ==
    IF content_length > STREAMING_THRESHOLD THEN "streamed" ELSE "buffered"

----------------------------------------------------------------------------
(* SpecServe: one connection whose requests are handled one after the other, each
   handler a sequence of steps broken at its awaits, and the set_served_file
   command, which may run between any two of them. *)

MaxStreamReads == 2

Methods == {"GET", "HEAD", "OPTIONS"}

RangeOf(start, end) == BytesEq \o U64ToString(start) \o <<"-">> \o U64ToString(end)

RangeFrom(start) == BytesEq \o U64ToString(start) \o <<"-">>

(* the values of the Range header that the requests carry *)
RangeValues ==
    {RangeOf(0, 1), RangeOf(500, 100), RangeOf(1000, 1000),
     RangeOf(0, 11999999), RangeOf(0, 10485759), RangeOf(1, 10485761),
     RangeFrom(990), RangeFrom(0),
     <<"0", "-", "1">>,
     RangeOf(0, 1) \o <<Opaque>>}

otherVars == <<indexVars, concVars, rangeVars, listenVars, lockVars>>

(* the set_served_file command (lines 349-353) *)
set_served_file(file_path) ==
    /\ current_file' = SetFile(current_file, file_path)
    /\ last_set' = Some(file_path)
    /\ UNCHANGED <<req, otherVars>>

(* a request arrives and the router picks its handler (lines 319-322) *)
NewRequest(method, range) ==
    /\ req.pc \in {"idle", "done"}
    /\ req' = [NoRequest EXCEPT !.pc = "routed", !.method = method, !.range = range]
    /\ UNCHANGED <<current_file, last_set, otherVars>>

(* a preflight handler that looks the active file up as the GET handler does *)
handle_options_ChecksRegistry ==
    /\ req.pc = "routed"
    /\ req.method = "OPTIONS"
    /\ req' = [req EXCEPT !.pc = "done", !.registry_reads = @ + 1,
                          !.resp = IF IsSome(GetFile(current_file))
                                   THEN OptionsResponse ELSE ErrResponse(404)]
    /\ UNCHANGED <<current_file, last_set, otherVars>>

(* handle_options (lines 101-124) *)
handle_options ==
    /\ req.pc = "routed"
    /\ req.method = "OPTIONS"
    /\ req' = [req EXCEPT !.pc = "done", !.resp = OptionsResponse]
    /\ UNCHANGED <<current_file, last_set, otherVars>>

(* serve_video, lines 138-144: the snapshot of the registry *)
ServeGetFile ==
    /\ req.pc = "routed"
    /\ req.method \in {"GET", "HEAD"}
    /\ LET file_path == GetFile(current_file)
       IN  req' = IF IsSome(file_path)
                  THEN [req EXCEPT !.pc = "open", !.file_path = file_path,
                                   !.registry_reads = @ + 1]
                  ELSE [req EXCEPT !.pc = "done", !.registry_reads = @ + 1,
                                   !.resp = ErrResponse(404)]
    /\ UNCHANGED <<current_file, last_set, otherVars>>

(* File::open with its failure answered like a failure of metadata *)
ServeOpen_ServerError ==
    /\ req.pc = "open"
    /\ \E ok \in {b \in BOOLEAN : b => Exists(Unwrap(req.file_path))} :
          req' = IF ok
                 THEN [req EXCEPT !.pc = "metadata", !.file = req.file_path,
                                  !.opens = @ + 1]
                 ELSE [req EXCEPT !.pc = "done", !.opens = @ + 1, !.io_error = TRUE,
                                  !.resp = ErrResponse(500)]
    /\ UNCHANGED <<current_file, last_set, otherVars>>

(* lines 146-152: File::open, which fails on a path that is not on the disk and
   may fail on one that is *)
ServeOpen ==
    /\ req.pc = "open"
    /\ \E ok \in {b \in BOOLEAN : b => Exists(Unwrap(req.file_path))} :
          req' = IF ok
                 THEN [req EXCEPT !.pc = "metadata", !.file = req.file_path,
                                  !.opens = @ + 1]
                 ELSE [req EXCEPT !.pc = "done", !.opens = @ + 1, !.io_error = TRUE,
                                  !.resp = ErrResponse(404)]
    /\ UNCHANGED <<current_file, last_set, otherVars>>

(* lines 154-161: file.metadata() *)
ServeMetadata ==
    /\ req.pc = "metadata"
    /\ \E ok \in BOOLEAN :
          req' = IF ok
                 THEN [req EXCEPT !.pc = "range",
                                  !.file_size = MetadataLen(Unwrap(req.file))]
                 ELSE [req EXCEPT !.pc = "done", !.io_error = TRUE,
                                  !.resp = ErrResponse(500)]
    /\ UNCHANGED <<current_file, last_set, otherVars>>

(* the body as the router hands it on: a HEAD request is answered by the GET
   handler and its body is dropped (line 320) *)
Routed(method, r) ==
    IF method = "HEAD" THEN [r EXCEPT !.pc = "done", !.remaining = 0] ELSE r

(* lines 163-209 and 270-294: the Range header is parsed; without a range the 200
   is built, its body a stream over the whole file; with one the file is sought
   to its start.  A panic of parse_range ends the handler with no response. *)
ServeRange ==
    /\ req.pc = "range"
    /\ \E parsed \in RequestRanges(req.range, req.file_size) :
          \/ /\ parsed.kind = "panic"
             /\ req' = [req EXCEPT !.pc = "done", !.range_read = TRUE,
                                   !.parsed = parsed]
          \/ /\ parsed.kind = "none"
             /\ req' = Routed(req.method,
                         [req EXCEPT !.pc = "stream", !.range_read = TRUE,
                                     !.parsed = parsed,
                                     !.remaining = req.file_size,
                                     !.resp = FullHead(Unwrap(req.file_path),
                                                       req.file_size)])
          \/ /\ parsed.kind = "some"
             /\ \E ok \in BOOLEAN :
                   req' = IF ok
                          THEN [req EXCEPT !.pc = "partial", !.range_read = TRUE,
                                           !.parsed = parsed, !.pos = parsed.start]
                          ELSE [req EXCEPT !.pc = "done", !.range_read = TRUE,
                                           !.parsed = parsed, !.io_error = TRUE,
                                           !.resp = ErrResponse(500)]
    /\ UNCHANGED <<current_file, last_set, otherVars>>

(* lines 211-242: a range longer than the threshold is answered with a stream
   over the next content_length bytes of the file *)
ServeStreamed ==
    /\ req.pc = "partial"
    /\ LET start == req.parsed.start
           end == req.parsed.end
           content_length == end - start + 1
       IN  /\ Strategy(content_length) = "streamed"
           /\ req' = Routed(req.method,
                       [req EXCEPT !.pc = "stream", !.remaining = content_length,
                                   !.resp = PartialHead(Unwrap(req.file_path), start,
                                                end, req.file_size, "streamed")])
    /\ UNCHANGED <<current_file, last_set, otherVars>>

(* the buffered branch answering a failed read with the 206 and an empty buffer *)
ServeBuffered_IgnoresReadError ==
    /\ req.pc = "partial"
    /\ LET start == req.parsed.start
           end == req.parsed.end
           content_length == end - start + 1
           head == PartialHead(Unwrap(req.file_path), start, end, req.file_size,
                               "buffered")
           buffer == <<[file |-> Unwrap(req.file), first |-> req.pos,
                        count |-> content_length]>>
       IN  /\ Strategy(content_length) = "buffered"
           /\ \E ok \in BOOLEAN :
                 req' = IF ok
                        THEN [req EXCEPT !.pc = "done",
                                         !.pos = @ + content_length,
                                         !.resp = [head EXCEPT !.body =
                                             IF req.method = "HEAD" THEN <<>>
                                             ELSE buffer]]
                        ELSE [req EXCEPT !.pc = "done", !.io_error = TRUE,
                                         !.resp = head]
    /\ UNCHANGED <<current_file, last_set, otherVars>>

(* lines 243-268: a range up to the threshold is read whole with read_exact and
   answered with the buffer *)
ServeBuffered ==
    /\ req.pc = "partial"
    /\ LET start == req.parsed.start
           end == req.parsed.end
           content_length == end - start + 1
           head == PartialHead(Unwrap(req.file_path), start, end, req.file_size,
                               "buffered")
           buffer == <<[file |-> Unwrap(req.file), first |-> req.pos,
                        count |-> content_length]>>
       IN  /\ Strategy(content_length) = "buffered"
           /\ \E ok \in BOOLEAN :
                 req' = IF ok
                        THEN [req EXCEPT !.pc = "done",
                                         !.pos = @ + content_length,
                                         !.resp = [head EXCEPT !.body =
                                             IF req.method = "HEAD" THEN <<>>
                                             ELSE buffer]]
                        ELSE [req EXCEPT !.pc = "done", !.io_error = TRUE,
                                         !.resp = ErrResponse(500)]
    /\ UNCHANGED <<current_file, last_set, otherVars>>

(* the sizes of the next read of the body stream *)
ReadSizes(remaining, reads) ==
    IF reads + 1 < MaxStreamReads
    THEN {remaining, (remaining + 1) \div 2}
    ELSE {remaining}

(* the body stream reading from the file that is registered when it reads *)
StreamSource_Current(r, current) == Unwrap(current)

(* the body stream reads from the file handle that the handler opened *)
StreamSource(r, current) == Unwrap(r.file)

(* ReaderStream over the file (lines 219-220 and 272-273): the next read of the
   body, from the open file at its position; a failed read ends the body short *)
StreamRead ==
    /\ req.pc = "stream"
    /\ \/ \E n \in ReadSizes(req.remaining, req.reads) :
             req' = [req EXCEPT
                        !.pc = IF n = req.remaining THEN "done" ELSE "stream",
                        !.pos = @ + n,
                        !.remaining = @ - n,
                        !.reads = @ + 1,
                        !.resp.body = IF n = 0 THEN @
                                      ELSE Append(@, [file |-> StreamSource(req, current_file),
                                                      first |-> req.pos,
                                                      count |-> n])]
       \/ req' = [req EXCEPT !.pc = "done", !.io_error = TRUE]
    /\ UNCHANGED <<current_file, last_set, otherVars>>

InitServe ==
    /\ entries = {}
    /\ clock = 1
    /\ fs = FsInit
    /\ last = NoCall
    /\ IdleThreads
    /\ NoRange
    /\ NoServe
    /\ NoListener
    /\ NoLock

NextServe ==
    \/ \E file_path \in Paths : set_served_file(file_path)
    \/ \E method \in Methods, range \in {None} \cup {Some(v) : v \in RangeValues} :
          NewRequest(method, range)
    \/ handle_options
    \/ ServeGetFile
    \/ ServeOpen
    \/ ServeMetadata
    \/ ServeRange
    \/ ServeStreamed
    \/ ServeBuffered
    \/ StreamRead

SpecServe == InitServe /\ [][NextServe]_vars

----------------------------------------------------------------------------
(* Claims on the file server *)

RECURSIVE BodyLength(_)
BodyLength(body) ==
    IF body = <<>> THEN 0 ELSE body[1].count + BodyLength(Tail(body))

(* the body is the count bytes of the file from offset first, in order *)
BodyIs(body, file, first, count) ==
    /\ BodyLength(body) = count
    /\ \A i \in 1 .. Len(body) :
          /\ body[i].file = file
          /\ body[i].count > 0
          /\ body[i].first = first + BodyLength(SubSeq(body, 1, i - 1))

(* the request is a GET that has been answered, every I/O call of its handler
   having succeeded *)
Answered == req.pc = "done" /\ req.method = "GET" /\ ~req.io_error

(* the specifier after "bytes=" in the Range header of the request *)
HasBytesPrefix ==
    /\ IsSome(req.range)
    /\ Len(Unwrap(req.range)) >= 6
    /\ SubSeq(Unwrap(req.range), 1, 6) = BytesEq

Specifier == SubSeq(Unwrap(req.range), 7, Len(Unwrap(req.range)))

(* C11: a GET with a Range header "bytes=<spec>" whose specifier parse_range
   resolves to (start, end) on a readable active file of N bytes is answered 206
   with Content-Range "bytes start-end/N", Content-Length end - start + 1, between
   1 and N, and a body of exactly the bytes start..end of the file, on the buffered
   and on the streamed path *)
C11_RangeGives206 ==
    (Answered /\ IsSome(req.file_path) /\ HasBytesPrefix) =>
        LET file == Unwrap(req.file_path)
            N == MetadataLen(file)
        IN  \A start \in {0, 1, 990, 1000}, end \in {1, 999, 1000, 10485759,
                                                    10485761, 11999999, N - 1} :
               RangeSome(start, end) \in ParseRangeResults(Specifier, N) =>
                   /\ req.resp.status = 206
                   /\ req.resp.headers.content_range =
                          BytesSp \o U64ToString(start) \o <<"-">> \o U64ToString(end)
                              \o <<"/">> \o U64ToString(N)
                   /\ req.resp.headers.content_length = U64ToString(end - start + 1)
                   /\ end - start + 1 >= 1
                   /\ end - start + 1 <= N
                   /\ req.resp.via \in {"buffered", "streamed"}
                   /\ BodyIs(req.resp.body, file, start, end - start + 1)

(* bytes 0..11999999 of the file of 50,000,000 bytes have been streamed in two
   reads *)
C11_Witness ==
    /\ Answered
    /\ req.range = Some(RangeOf(0, 11999999))
    /\ req.resp.status = 206
    /\ req.resp.via = "streamed"
    /\ Len(req.resp.body) = 2
    /\ BodyIs(req.resp.body, BigMkv, 0, 12000000)

(* C12: a GET on a readable active file of N bytes whose Range header is absent,
   does not start with "bytes=", or is rejected by parse_range is answered 200 with
   Content-Length N, Accept-Ranges: bytes, no Content-Range and the whole file as
   body; a malformed range is never answered with an error status *)
C12_NoRangeGives200 ==
    (Answered /\ IsSome(req.file_path)) =>
        LET file == Unwrap(req.file_path)
            N == MetadataLen(file)
        IN  (\/ ~IsSome(req.range)
             \/ ~HasBytesPrefix
             \/ /\ RangeNone \in ParseRangeResults(Specifier, N)
                /\ req.parsed.kind # "panic") =>
                /\ req.resp.status = 200
                /\ req.resp.headers.content_length = U64ToString(N)
                /\ req.resp.headers.accept_ranges = "bytes"
                /\ req.resp.headers.content_range = <<>>
                /\ BodyIs(req.resp.body, file, 0, N)

(* "bytes=500-100" on the file of 1000 bytes has been answered with the file *)
C12_Witness ==
    /\ Answered
    /\ req.range = Some(RangeOf(500, 100))
    /\ req.file_path = Some(SmallMp4)
    /\ req.resp.status = 200
    /\ BodyIs(req.resp.body, SmallMp4, 0, 1000)

(* C13: a 206 is streamed exactly when its length L = end - start + 1 is greater
   than 10 MiB and buffered exactly when L is at most 10 MiB, L = 10 MiB included;
   the status, Content-Range and Content-Length are the same on both paths *)
C13_StrategyByLength ==
    req.resp.status = 206 =>
        LET start == req.parsed.start
            end == req.parsed.end
            L == end - start + 1
        IN  /\ req.parsed.kind = "some"
            /\ (req.resp.via = "streamed") <=> (L > 10 * 1024 * 1024)
            /\ (req.resp.via = "buffered") <=> (L <= 10 * 1024 * 1024)
            /\ req.resp.headers.content_length = U64ToString(L)
            /\ req.resp.headers.content_range =
                   BytesSp \o U64ToString(start) \o <<"-">> \o U64ToString(end)
                       \o <<"/">> \o U64ToString(req.file_size)

(* a range of exactly 10 MiB has been answered from the buffer *)
C13_Witness ==
    /\ Answered
    /\ req.range = Some(RangeOf(0, 10485759))
    /\ req.resp.status = 206
    /\ req.resp.via = "buffered"
    /\ BodyLength(req.resp.body) = 10485760

(* C14: the status of every response of serve_video and handle_options is one of
   200, 206, 204, 404 and 500; 204 answers OPTIONS only; 416 is never produced,
   also for a range that lies outside the file *)
C14_StatusCodes ==
    req.resp.status # 0 =>
        /\ req.resp.status \in {200, 206, 204, 404, 500}
        /\ req.resp.status = 204 => req.method = "OPTIONS"
        /\ req.resp.status # 416

(* "bytes=1000-1000" on the file of 1000 bytes has been answered 200 *)
C14_Witness ==
    /\ req.pc = "done"
    /\ req.range = Some(RangeOf(1000, 1000))
    /\ req.file = Some(SmallMp4)
    /\ req.resp.status = 200

(* the handler ends with the bare status, no byte of a file sent and the Range
   header not looked at *)
EndsWith(status) ==
    /\ req'.pc = "done"
    /\ req'.resp.status = status
    /\ req'.resp.body = <<>>
    /\ ~req'.range_read

(* C15: a request with no file registered is answered 404; one whose registered
   path cannot be opened is answered 404; one whose file opens but whose metadata
   cannot be read is answered 500; in each case no file bytes are sent and the
   Range header is not consulted *)
C15_ErrorStatuses ==
    [][/\ (req.pc = "routed" /\ req.method # "OPTIONS" /\ req' # req
              /\ ~IsSome(current_file)) => EndsWith(404)
       /\ (req.pc = "open" /\ req' # req /\ ~IsSome(req'.file)) => EndsWith(404)
       /\ (req.pc = "metadata" /\ req' # req /\ req'.io_error) => EndsWith(500)]_vars

(* a ranged request for a registered path that is not on the disk has been
   answered 404 *)
C15_Witness ==
    /\ req.pc = "done"
    /\ req.file_path = Some(GoneMp4)
    /\ req.range = Some(RangeOf(0, 1))
    /\ req.opens = 1
    /\ req.resp = [status |-> 404, headers |-> NoHeaders, via |-> "none", body |-> <<>>]

(* C16: an OPTIONS request is answered with the fixed preflight, status 204 with
   allow-origin *, allow-methods "GET, HEAD, OPTIONS", allow-headers
   "range, content-type", max-age 86400 and an empty body, whatever the registry
   holds; the handler neither reads the registry nor opens a file *)
C16_PreflightFixed ==
    (req.method = "OPTIONS" /\ req.pc = "done") =>
        /\ req.resp.status = 204
        /\ req.resp.headers.allow_origin = "*"
        /\ req.resp.headers.allow_methods = "GET, HEAD, OPTIONS"
        /\ req.resp.headers.allow_headers = "range, content-type"
        /\ req.resp.headers.max_age = "86400"
        /\ req.resp.body = <<>>
        /\ req.registry_reads = 0
        /\ req.opens = 0
        /\ ~IsSome(req.file)

(* a preflight has been answered with no file registered *)
C16_Witness ==
    /\ req.method = "OPTIONS"
    /\ req.pc = "done"
    /\ ~IsSome(current_file)
    /\ req.resp.status = 204

(* the headers that add_common_headers sets, content type apart *)
HasCommonHeaders(headers) ==
    /\ headers.accept_ranges = "bytes"
    /\ headers.cache_control = "public, max-age=3600"
    /\ headers.vary # ""
    /\ headers.allow_origin = "*"
    /\ headers.allow_methods = "GET, HEAD, OPTIONS"
    /\ headers.allow_headers = "range, content-type"
    /\ headers.expose_headers = "content-length, content-range, accept-ranges"

(* C17: every response to a request that is not a preflight, whatever its status
   (200, 206, 404 or 500), carries Accept-Ranges: bytes, Cache-Control: public,
   max-age=3600, Vary, the CORS allow-origin, allow-methods and allow-headers and
   Access-Control-Expose-Headers *)
C17_CommonHeadersOnEvery ==
    (req.method # "OPTIONS" /\ req.resp.status \in {200, 206, 404, 500}) =>
        HasCommonHeaders(req.resp.headers)

(* C18: get_file gives none until the first set_file; after any interleaving of
   set_file and get_file it gives the path of the most recently completed set_file;
   set_file takes any path, on the disk or not; once set, the slot never becomes
   none again *)
C18_RegistryLatestWins ==
    [][/\ GetFile(current_file) = last_set
       /\ GetFile(current_file') = last_set'
       /\ \A file_path \in Paths :
             (last_set' = Some(file_path) /\ last_set # last_set') =>
                 current_file' = Some(file_path)
       /\ IsSome(current_file) => IsSome(current_file')
       /\ req'.registry_reads = req.registry_reads + 1 =>
             (IF IsSome(last_set) THEN req'.file_path = last_set
              ELSE req'.resp.status = 404)]_vars

(* a handler has read from the registry a path that is not on the disk *)
C18_Witness ==
    /\ req.registry_reads = 1
    /\ req.file_path = Some(GoneMp4)
    /\ current_file = Some(GoneMp4)
    /\ last_set = Some(GoneMp4)

(* C19: a request reads the registry exactly once, at its start; if
   set_served_file changes the active file while the request is in progress, the
   status, the Content-Type, the size headers and every byte of the body of its
   response come from the one file it opened from its snapshot; only a request
   that starts after the set sees the new file *)
C19_SnapshotPerRequest ==
    [][/\ req'.registry_reads <= 1
       /\ req'.opens <= 1
       /\ req'.registry_reads = req.registry_reads + 1 =>
             (req.pc = "routed" /\ req'.file_path = current_file)
       /\ req.pc \in {"open", "metadata", "range", "partial", "stream"} =>
             req'.file_path = req.file_path
       /\ IsSome(req'.file) => req'.file = req'.file_path
       /\ req'.resp.status \in {200, 206} =>
             LET file == Unwrap(req'.file_path)
                 N == MetadataLen(file)
                 L == BodyLength(req'.resp.body) + req'.remaining
             IN  /\ req'.opens = 1
                 /\ req'.resp.headers.content_type =
                        (IF file.ext = <<"mp4">> THEN "video/mp4"
                         ELSE "application/octet-stream")
                 /\ req'.method = "GET" =>
                        req'.resp.headers.content_length = U64ToString(L)
                 /\ req'.resp.status = 200 =>
                        req'.resp.headers.content_length = U64ToString(N)
                 /\ req'.resp.status = 206 =>
                        \E i \in 1 .. Len(req'.resp.headers.content_range) :
                           /\ req'.resp.headers.content_range[i] = "/"
                           /\ SubSeq(req'.resp.headers.content_range, i + 1,
                                     Len(req'.resp.headers.content_range))
                                  = U64ToString(N)
                 /\ \A i \in 1 .. Len(req'.resp.body) :
                       req'.resp.body[i].file = file]_vars

(* the body of a response is being read from the file of the snapshot after
   another file has been registered *)
C19_Witness ==
    /\ req.pc = "stream"
    /\ req.file_path = Some(BigMkv)
    /\ current_file = Some(SmallMp4)
    /\ req.resp.status = 200
    /\ req.resp.headers.content_type = "application/octet-stream"
    /\ req.resp.body = <<[file |-> BigMkv, first |-> 0, count |-> 25000000]>>

----------------------------------------------------------------------------
(* SpecListener: init_file_server (file_server.rs lines 306-345).  The command
   holds the SERVER_HANDLE mutex from its first line to its return and has no
   await, so the calls that are waiting for the mutex run one at a time, in any
   order.  The listener task binds its port after the command has returned. *)

MaxInitCalls == 3

Ports == {80, 8765, 9000}

(* format!("http://127.0.0.1:{}", port) *)
BaseUrl(port) == <<"http://127.0.0.1:">> \o U64ToString(port)

(* a call of the command arrives and waits for the mutex *)
InitCall(port) ==
    /\ Len(init_ret) < MaxInitCalls
    /\ init_ret' = Append(init_ret, [port |-> port, state |-> "waiting", url |-> <<>>])
    /\ UNCHANGED <<server_handle, tasks, indexVars, concVars, rangeVars, serveVars, lockVars>>

(* init_file_server (lines 306-345), from taking the mutex to its return *)
init_file_server(i) ==
    /\ i \in 1 .. Len(init_ret)
    /\ init_ret[i].state = "waiting"
    /\ LET port == init_ret[i].port
       IN  IF IsSome(server_handle)
           THEN /\ init_ret' = [init_ret EXCEPT ![i].state = "returned",
                                                ![i].url = BaseUrl(port)]
                /\ UNCHANGED <<server_handle, tasks>>
           ELSE /\ tasks' = Append(tasks, [port |-> port, state |-> "spawned"])
                /\ server_handle' = Some(Len(tasks) + 1)
                /\ init_ret' = [init_ret EXCEPT ![i].state = "returned",
                                                ![i].url = BaseUrl(port)]
    /\ UNCHANGED <<indexVars, concVars, rangeVars, serveVars, lockVars>>

(* the listener task (lines 327-339): TcpListener::bind succeeds and the task
   serves, or fails and the task logs the error and ends *)
ListenerBind(t) ==
    /\ t \in 1 .. Len(tasks)
    /\ tasks[t].state = "spawned"
    /\ \E ok \in BOOLEAN :
          tasks' = [tasks EXCEPT ![t].state = IF ok THEN "listening" ELSE "ended"]
    /\ UNCHANGED <<server_handle, init_ret, indexVars, concVars, rangeVars, serveVars, lockVars>>

InitListener ==
    /\ entries = {}
    /\ clock = 1
    /\ fs = FsInit
    /\ last = NoCall
    /\ IdleThreads
    /\ NoRange
    /\ NoServe
    /\ NoListener
    /\ NoLock

NextListener ==
    \/ \E port \in Ports : InitCall(port)
    \/ \E i \in 1 .. MaxInitCalls : init_file_server(i)
    \/ \E t \in 1 .. MaxInitCalls : ListenerBind(t)

SpecListener == InitListener /\ [][NextListener]_vars

(* C20: starting the listener is idempotent: after the first init_file_server(p),
   every later call init_file_server(q), sequential or concurrent and for any port
   q, spawns no second listener task, so that at most one listener task exists
   over the life of the process, and returns the base URL that the first call
   returned, the address of the existing listener *)
C20_InitIdempotent ==
    /\ Len(tasks) <= 1
    /\ \A i \in 1 .. Len(init_ret) :
          init_ret[i].state = "returned" =>
              /\ Len(tasks) = 1
              /\ init_ret[i].url = BaseUrl(tasks[1].port)

(* a call of init_file_server returns in this step *)
InitReturns ==
    \E i \in 1 .. Len(init_ret) :
        init_ret[i].state = "waiting" /\ init_ret'[i].state = "returned"

(* C21: a bind failure ends only the listener task and the caller can retry: after
   the task that init_file_server spawned has failed to bind and ended, a later
   call of init_file_server makes a new bind attempt, that is, spawns a listener
   task again *)
C21_RetryAfterBindFailure ==
    [][(/\ InitReturns
        /\ Len(tasks) >= 1
        /\ \A t \in 1 .. Len(tasks) : tasks[t].state = "ended") =>
           /\ Len(tasks') = Len(tasks) + 1
           /\ tasks'[Len(tasks')].state = "spawned"]_vars

----------------------------------------------------------------------------
(* Further claims on the concurrent index *)

(* the callers between their mutation of the map and the end of save_to_file *)
Persisting == {t \in Threads : pc[t] \in {"mkdir", "open", "rlock", "write", "rename"}}

(* C22: the persistence write of a mutating call is done while the call holds the
   write lock: between a call's mutation of the map and the completion of its
   rename no other operation modifies the map, so that the mutation-plus-persist
   steps of different calls never interleave *)
C22_PersistUnderWriteLock ==
    [][(Persisting # {} /\ \E t \in Threads : pc'[t] # "crashed") =>
           /\ entries' = entries
           /\ Cardinality(Persisting) <= 1]_vars

----------------------------------------------------------------------------
(* Further claims on the file server *)

(* a seek or a read of a range request fails in this step *)
RangeIoFails == ~req.io_error /\ req'.io_error /\ req'.parsed.kind = "some"

(* C23: a read or seek failure on either transfer path of a range request yields
   status 500: on the buffered path a failed seek or a failed read gives 500 with
   no partial body, and on the streaming path a failed seek or a read failure
   while the span is being transferred gives a 500 rather than a 206 *)
C23_FailureGives500 ==
    [][RangeIoFails =>
          /\ req'.resp.status = 500
          /\ req'.resp.body = <<>>]_vars

(* C23 as the code has it: a failed seek, and a failed read on the buffered path,
   give 500 with no body; a read that fails while the span is being streamed
   leaves the 206 that has been sent and ends its body short of Content-Length *)
C23_FailureGives500UnlessStreaming ==
    [][RangeIoFails =>
          IF req.pc = "stream"
          THEN /\ req'.resp.status = 206
               /\ req'.resp.via = "streamed"
               /\ req'.resp.body = req.resp.body
               /\ req'.resp.headers.content_length # U64ToString(BodyLength(req'.resp.body))
          ELSE /\ req'.resp.status = 500
               /\ req'.resp.body = <<>>]_vars

(* the stream of a 206 has failed after its first read *)
C23_Witness ==
    /\ req.pc = "done"
    /\ req.io_error
    /\ req.resp.status = 206
    /\ req.resp.via = "streamed"
    /\ Len(req.resp.body) = 1
    /\ req.remaining > 0

----------------------------------------------------------------------------
(* Further claims on the index *)

(* C24: remove_by_id(id) deletes the entry with the numeric id: in every reachable
   state of the index, states where several hashes have been upserted with one id
   included, after remove_by_id(id) has returned Ok get_by_id(id) returns none and
   the entries with another id are unchanged *)
C24_RemoveByIdRemovesId ==
    [][last'.op = "remove_by_id" =>
          /\ GetByIdResults(entries', last'.torrent_id) = {None}
          /\ {p \in entries' : p.v.torrent_id # last'.torrent_id}
                 = {p \in entries : p.v.torrent_id # last'.torrent_id}]_vars

----------------------------------------------------------------------------
(* SpecReload: one caller whose calls run one after the other and succeed, a clock
   that may advance between them, the TorrentDb dropped and constructed again over
   the same db_path, and another program replacing the file at db_path. *)

MaxClock == 2

ReloadTorrentIds == {1}
ReloadTmdbIds    == {42}

(* TorrentDb::load_from_file (lines 66-73): Some(map) for Ok, None for Err *)
LoadFromFile(f) == ParseDoc(Unwrap(Durable(f)))

(* lines 52-57: the data TorrentDb::new starts from *)
NewData(f) == IF IsSome(Durable(f)) THEN LoadFromFile(f) ELSE Some({})

(* TorrentDb::new (lines 51-63) over the db_path of the TorrentDb that is dropped;
   when it returns Err there is no TorrentDb and no index *)
TorrentDb_new ==
    /\ LET data == NewData(fs)
       IN  /\ entries' = IF IsSome(data) THEN Unwrap(data) ELSE {}
           /\ last' = [NoCall EXCEPT !.op = "new", !.ok = IsSome(data)]
    /\ UNCHANGED <<clock, fs, concVars, rangeVars, serveVars, listenVars, lockVars>>

(* another program writes the document to the file at db_path, creating it when it
   is not there *)
ExternalWrite(doc) ==
    /\ LET i == IF fs.db = 0 THEN FreeInode(fs, {}) ELSE fs.db
       IN  fs' = [fs EXCEPT !.parent = TRUE, !.db = i, !.data[i] = doc]
    /\ last' = [NoCall EXCEPT !.op = "external"]
    /\ UNCHANGED <<entries, clock, concVars, rangeVars, serveVars, listenVars, lockVars>>

InitReload == Init

NextReload ==
    \/ \E id \in ReloadTorrentIds, h \in Hashes, tm \in Opt(ReloadTmdbIds),
          now \in clock .. MaxClock :
          upsert_torrent(id, h, tm, None, None, now)
    \/ \E h \in Hashes : get_by_hash(h)
    \/ \E h \in Hashes : remove_by_hash(h)
    \/ \E id \in ReloadTorrentIds : remove_by_id(id)
    \/ \E a \in SUBSET Hashes : sync_with_torrent_list(a)
    \/ TorrentDb_new
    \/ \E doc \in {<<>>, Serialize({})} : ExternalWrite(doc)

SpecReload == InitReload /\ [][NextReload]_vars

(* C25: TorrentDb::new on a path with no file gives an empty index and writes
   nothing; TorrentDb::new on the durable file left by successful calls that do not
   overlap gives an index with the hashes and the entry fields of the index that
   wrote the file; the index is never read again from the disk after construction *)
C25_ReloadRoundTrip ==
    [][/\ last'.saves = 1 => Durable(fs') = Some(Serialize(entries'))
       /\ last'.op = "new" =>
             /\ fs' = fs
             /\ ~IsSome(Durable(fs)) => (last'.ok /\ entries' = {})
             /\ Durable(fs) = Some(Serialize(entries)) => (last'.ok /\ entries' = entries)
       /\ last'.op = "external" => entries' = entries
       /\ last'.op = "get_by_hash" =>
             /\ entries' = entries
             /\ last'.result = MapGet(entries, last'.hash)]_vars

(* an index of two entries, written at two times, has been constructed again from
   its file *)
C25_Witness ==
    /\ last.op = "new"
    /\ last.ok
    /\ \E p \in entries : p.k = "h1" /\ p.v.created_at = 1 /\ p.v.updated_at = 2
                          /\ p.v.tmdb_id = Some(42)
    /\ \E p \in entries : p.k = "h2" /\ p.v.created_at = 2

----------------------------------------------------------------------------
(* SpecLock: the callers of one TorrentDb with the RwLock of its data made
   explicit.  A call that has arrived waits for the lock it needs; a section that
   runs under the write guard is one step; save_to_file waits for the read lock
   and then writes and renames the file in one step (SpecConc has its steps).
   upsert_torrent reads the time when it is called, before it waits for the lock. *)

LockHashes == {"h1"}

FreeLock == [writer |-> {}, readers |-> {}]

(* parking_lot RwLock: write() is granted when no guard is held; read() when no
   write guard is held and no caller waits in write(); a caller that holds a
   guard is not granted another *)
CanWrite(lock, t) == lock.writer = {} /\ lock.readers = {}

WriterWaits == \E u \in Threads : pc[u] = "write"

CanRead(lock, t) == lock.writer = {} /\ t \notin lock.readers /\ ~WriterWaits

(* the write guard kept until the function returns *)
DropGuard_Kept(lock, t) == lock

(* drop(data) (lines 146, 188, 208, 231) *)
DropGuard(lock, t) == [lock EXCEPT !.writer = @ \ {t}]

(* a guard dropped at the end of its scope *)
EndOfScope(lock, t) == [writer |-> lock.writer \ {t}, readers |-> lock.readers \ {t}]

Waiting(t) == pc[t] \in {"idle", "returned"}

(* a call arrives; upsert_torrent reads the time (line 110) *)
CallUpsert(t, torrent_id, info_hash) ==
    /\ Waiting(t)
    /\ pc' = [pc EXCEPT ![t] = "write"]
    /\ call' = [call EXCEPT ![t] = [NoCall EXCEPT !.op = "upsert", !.hash = info_hash,
                                                  !.torrent_id = torrent_id]]
    /\ call_now' = [call_now EXCEPT ![t] = clock]
    /\ UNCHANGED <<entries, clock, fs, last, fd, off, ioFailures, data_lock,
                   rangeVars, serveVars, listenVars>>

CallRemoveByHash(t, info_hash) ==
    /\ Waiting(t)
    /\ pc' = [pc EXCEPT ![t] = "write"]
    /\ call' = [call EXCEPT ![t] = [NoCall EXCEPT !.op = "remove_by_hash",
                                                  !.hash = info_hash]]
    /\ UNCHANGED <<entries, clock, fs, last, fd, off, ioFailures, lockVars,
                   rangeVars, serveVars, listenVars>>

CallRemoveById(t, torrent_id) ==
    /\ Waiting(t)
    /\ pc' = [pc EXCEPT ![t] = "write"]
    /\ call' = [call EXCEPT ![t] = [NoCall EXCEPT !.op = "remove_by_id",
                                                  !.torrent_id = torrent_id]]
    /\ UNCHANGED <<entries, clock, fs, last, fd, off, ioFailures, lockVars,
                   rangeVars, serveVars, listenVars>>

CallSync(t, active_info_hashes) ==
    /\ Waiting(t)
    /\ pc' = [pc EXCEPT ![t] = "write"]
    /\ call' = [call EXCEPT ![t] = [NoCall EXCEPT !.op = "sync",
                                                  !.active = active_info_hashes]]
    /\ UNCHANGED <<entries, clock, fs, last, fd, off, ioFailures, lockVars,
                   rangeVars, serveVars, listenVars>>

(* get_by_hash, get_by_id, get_tmdb_id, get_all_entries, count: the readers *)
CallGet(t, op, info_hash, torrent_id) ==
    /\ Waiting(t)
    /\ pc' = [pc EXCEPT ![t] = "read"]
    /\ call' = [call EXCEPT ![t] = [NoCall EXCEPT !.op = op, !.hash = info_hash,
                                                  !.torrent_id = torrent_id]]
    /\ UNCHANGED <<entries, clock, fs, last, fd, off, ioFailures, lockVars,
                   rangeVars, serveVars, listenVars>>

(* the maps the section under the write guard may leave *)
Mutated(m, c, now) ==
    IF c.op = "upsert"
    THEN {UpsertEntries(m, c.torrent_id, c.hash, None, None, None, now)}
    ELSE IF c.op = "remove_by_hash" THEN {RemoveByHashEntries(m, c.hash)}
    ELSE IF c.op = "remove_by_id" THEN RemoveByIdResults(m, c.torrent_id)
    ELSE {SyncEntries(m, c.active)}

(* the handler goes on to save_to_file *)
Saves(m, c) ==
    IF c.op = "upsert" THEN TRUE
    ELSE IF c.op = "remove_by_hash" THEN MapContains(m, c.hash)
    ELSE IF c.op = "remove_by_id" THEN FindById(m, c.torrent_id) # {}
    ELSE Count(m) - Count(SyncEntries(m, c.active)) > 0

(* the arguments and the time read go out of scope *)
Forget(t) ==
    /\ call' = [call EXCEPT ![t] = NoCall]
    /\ call_now' = [call_now EXCEPT ![t] = 0]

(* data.write() is granted and the section under the guard runs: to drop(data)
   when the handler saves, to the return of Ok(()) when it does not *)
WriteSection(t) ==
    /\ pc[t] = "write"
    /\ CanWrite(data_lock, t)
    /\ \E m \in Mutated(entries, call[t], call_now[t]) : entries' = m
    /\ LET held == [data_lock EXCEPT !.writer = {t}]
       IN  IF Saves(entries, call[t])
           THEN /\ data_lock' = DropGuard(held, t)
                /\ pc' = [pc EXCEPT ![t] = "save"]
           ELSE /\ data_lock' = EndOfScope(held, t)
                /\ pc' = [pc EXCEPT ![t] = "returned"]
    /\ Forget(t)
    /\ UNCHANGED <<clock, fs, last, fd, off, ioFailures,
                   rangeVars, serveVars, listenVars>>

(* save_to_file line 92: data.read() is granted *)
SaveRead(t) ==
    /\ pc[t] = "save"
    /\ CanRead(data_lock, t)
    /\ data_lock' = [data_lock EXCEPT !.readers = @ \cup {t}]
    /\ pc' = [pc EXCEPT ![t] = "saving"]
    /\ UNCHANGED <<entries, clock, fs, last, call, fd, off, ioFailures, call_now,
                   rangeVars, serveVars, listenVars>>

(* save_to_file to its end and the return of the handler: the guards are dropped *)
SaveReturn(t) ==
    /\ pc[t] = "saving"
    /\ fs' = SaveToFile(fs, entries)
    /\ data_lock' = EndOfScope(data_lock, t)
    /\ pc' = [pc EXCEPT ![t] = "returned"]
    /\ UNCHANGED <<entries, clock, last, call, fd, off, ioFailures, call_now,
                   rangeVars, serveVars, listenVars>>

(* a reader: data.read() is granted *)
GetRead(t) ==
    /\ pc[t] = "read"
    /\ CanRead(data_lock, t)
    /\ data_lock' = [data_lock EXCEPT !.readers = @ \cup {t}]
    /\ pc' = [pc EXCEPT ![t] = "reading"]
    /\ UNCHANGED <<entries, clock, fs, last, call, fd, off, ioFailures, call_now,
                   rangeVars, serveVars, listenVars>>

(* a reader returns a clone of what it finds and drops its guard *)
GetReturn(t) ==
    /\ pc[t] = "reading"
    /\ data_lock' = EndOfScope(data_lock, t)
    /\ pc' = [pc EXCEPT ![t] = "returned"]
    /\ Forget(t)
    /\ UNCHANGED <<entries, clock, fs, last, fd, off, ioFailures,
                   rangeVars, serveVars, listenVars>>

(* the time goes on *)
Tick ==
    /\ clock < MaxClock
    /\ clock' = clock + 1
    /\ UNCHANGED <<entries, fs, last, concVars, lockVars, rangeVars, serveVars, listenVars>>

(* a call is granted the lock it waits for *)
Acquire(t) ==
    \/ WriteSection(t)
    \/ SaveRead(t)
    \/ GetRead(t)

(* a call that holds the read guard goes on to its return *)
Release(t) ==
    \/ SaveReturn(t)
    \/ GetReturn(t)

InitLock == Init

NextLock ==
    \/ \E t \in Threads, id \in ReloadTorrentIds, h \in LockHashes : CallUpsert(t, id, h)
    \/ \E t \in Threads, h \in LockHashes : CallRemoveByHash(t, h)
    \/ \E t \in Threads, id \in ReloadTorrentIds : CallRemoveById(t, id)
    \/ \E t \in Threads, a \in SUBSET LockHashes : CallSync(t, a)
    \/ \E t \in Threads, h \in LockHashes : CallGet(t, "get_by_hash", h, 0)
    \/ \E t \in Threads : Acquire(t)
    \/ \E t \in Threads : Release(t)
    \/ Tick

(* the lock is fair: a caller that can be granted the lock again and again is
   granted it; a caller that holds the read guard goes on *)
SpecLock ==
    /\ InitLock
    /\ [][NextLock]_vars
    /\ \A t \in Threads : SF_vars(Acquire(t)) /\ WF_vars(Release(t))

----------------------------------------------------------------------------
(* C26: a created entry has created_at = updated_at, an upsert of a known hash
   keeps created_at and sets updated_at to the time of the call, the removals
   and the sync keep the timestamps of the entries they keep, and so, the time
   never going back, created_at <= updated_at holds for every entry in every
   reachable state *)
C26_CreatedBeforeUpdated ==
    \A p \in entries : p.v.created_at <= p.v.updated_at

----------------------------------------------------------------------------
(* a step of save_to_file of caller t fails *)
PersistFails(t) == t \in Persisting /\ ioFailures' = ioFailures + 1

(* C27: when a step of the persistence of a mutating call fails (creating the
   directory, opening the temp file, serializing, renaming), the call returns an
   error, the index keeps the mutation, and the durable file keeps the document
   it held *)
C27_FailureReturnsError ==
    [][\A t \in Threads : PersistFails(t) /\ pc'[t] # pc[t] =>
           /\ pc'[t] = "returned"
           /\ ~call'[t].ok
           /\ entries' = entries
           /\ Durable(fs') = Durable(fs)]_vars

----------------------------------------------------------------------------
(* SpecOnce: the callers of SpecConc, each making one mutating call, so that the
   calls made so far are the ones the state holds *)

FirstCall(t) == pc[t] = "idle"

NextOnce ==
    \/ \E t \in Threads, id \in ConcTorrentIds, h \in ConcHashes, tm \in Opt(ConcTmdbIds) :
          FirstCall(t) /\ UpsertMutate(t, id, h, tm)
    \/ \E t \in Threads, h \in ConcHashes : FirstCall(t) /\ RemoveByHashMutate(t, h)
    \/ \E t \in Threads, id \in ConcTorrentIds : FirstCall(t) /\ RemoveByIdMutate(t, id)
    \/ \E t \in Threads, a \in SUBSET ConcHashes : FirstCall(t) /\ SyncMutate(t, a)
    \/ \E t \in Threads : SaveMkdir(t)
    \/ \E t \in Threads : SaveOpen(t)
    \/ \E t \in Threads : SaveReadLock(t)
    \/ \E t \in Threads : SaveWrite(t)
    \/ \E t \in Threads : SaveRename(t)
    \/ Crash

SpecOnce == InitConc /\ [][NextOnce]_vars

(* no call is in progress *)
Quiescent == \A t \in Threads : pc[t] \in {"idle", "returned"}

(* C28: when no call is in progress, every call made has returned Ok and one of
   them has persisted, the durable file is the complete document of the index *)
C28_QuiescentConsistency ==
    (/\ Quiescent
     /\ \A t \in Threads : pc[t] = "returned" => call[t].ok
     /\ \E t \in Threads : pc[t] = "returned" /\ call[t].saves = 1) =>
        Durable(fs) = Some(Serialize(entries))

----------------------------------------------------------------------------
(* a call of caller t is in progress *)
InProgress(t) == pc[t] \notin {"idle", "returned"}

(* C29: with a fair lock that is not reentrant, every call returns in the end,
   and no caller is in save_to_file, waiting for or holding the read lock, while
   it holds the write lock *)
C29_EveryCallReturns ==
    /\ \A t \in Threads : InProgress(t) ~> pc[t] = "returned"
    /\ [](\A t \in Threads : pc[t] \in {"save", "saving"} => t \notin data_lock.writer)

(* the one caller holds the read lock in save_to_file and the other waits for the
   write lock *)
C29_Witness ==
    /\ pc["t1"] = "saving" /\ "t1" \in data_lock.readers
    /\ pc["t2"] = "write" /\ call["t2"].op = "upsert"

----------------------------------------------------------------------------
(* a request that has read the size 0 of the file it serves *)
ServesEmptyFile == req.pc \in {"range", "partial", "stream", "done"} /\ IsSome(req.file)
                       /\ MetadataLen(Unwrap(req.file)) = 0 /\ ~req.io_error

(* C30: for a file of size 0 parse_range gives no range for any specifier, also
   for "0-", whose end 0 - 1 wraps to u64::MAX or aborts the call, and so a range
   request on an empty active file is never answered 206 *)
C30_EmptyFileNoRange ==
    ServesEmptyFile =>
        /\ \A s \in RangeSpecifiers :
              \A r \in ParseRangeResults(s, req.file_size) : r.kind \in {"none", "panic"}
        /\ req.range_read => req.parsed.kind \in {"none", "panic"}
        /\ req.resp.status # 206

(* the request "bytes=0-" on the empty file is answered 200 with an empty body *)
C30_Witness ==
    /\ ServesEmptyFile
    /\ req.pc = "done"
    /\ req.range = Some(RangeFrom(0))
    /\ req.parsed = RangeNone
    /\ req.resp.status = 200
    /\ BodyLength(req.resp.body) = 0

====
